---- MODULE Spec2Model ----
(***************************************************************************)
(* Model of frontend/prediction_form/src/App.jsx: the App component's      *)
(* request orchestration (handlePrediction), the Firestore history         *)
(* subscription (onSnapshot callback), the bulk clear (handleClearHistory) *)
(* and the aggregation of PredictionPieChart.                              *)
(*                                                                         *)
(* The browser runs one event loop.  Every action below is one run of      *)
(* application code between two suspension points (an await, a promise     *)
(* callback, a listener callback), or one step of the environment (the     *)
(* backend answering a fetch, Firestore accepting or rejecting a write).   *)
(***************************************************************************)
EXTENDS Integers, Sequences, FiniteSets, TLC

(***************************************************************************)
(* Bounds of the model.                                                    *)
(***************************************************************************)
MaxSub == 1          \* submissions (calls of handlePrediction) per behaviour
MaxClear == 1        \* calls of handleClearHistory per behaviour
MaxPoll == 2       \* calls of fetchData explored
MaxReset == 1      \* calls of handleReset explored
MaxLog == 1        \* predictions the backend logs while the chart is shown
MaxOverlap == 2      \* calls of handlePrediction that can be in flight together

(***************************************************************************)
(* Static data of the program.                                             *)
(***************************************************************************)
availableDiseases == <<"heart", "diabetes", "kidney", "hypertension">>

\* The diseases the user picks from in the model.
Categories == {availableDiseases[1], availableDiseases[2]}

NoDisease == "null"
NoUser == "null"

\* Feature vectors handed to handlePrediction by PredictionForm.handleSubmit.
FormInputs == {"vectorA"}

PredictionGenericMessage == "Something went wrong with the prediction."
ShapGenericMessage == "Something went wrong with the SHAP explanation."
ConnectMessage == "Failed to connect to the backend server."
TransportMessage == "Failed to fetch"
\* Message of the SyntaxError response.json() rejects with when the body is
\* not JSON.
JsonParseMessage == "Unexpected token '<', \"<!DOCTYPE \"... is not valid JSON"

(***************************************************************************)
(* What the backend can answer to one fetch.  kind "ok" is a 2xx response  *)
(* with a JSON body, "status" a non-2xx response whose JSON body carries   *)
(* detail (the empty string stands for a body without a usable detail),    *)
(* "transport" a fetch that rejects.  "statusNotJson" and "okNotJson" are   *)
(* a non-2xx and a 2xx response whose body is not JSON (the error page of  *)
(* a gateway in front of the backend).                                     *)
(***************************************************************************)
NoBody == [prediction |-> -1, probability_has_disease |-> -1]

PredictResponses ==
    { [kind |-> "ok", body |-> [prediction |-> 1, probability_has_disease |-> 82], detail |-> ""],
      [kind |-> "ok", body |-> [prediction |-> 0, probability_has_disease |-> 18], detail |-> ""],
      [kind |-> "status", body |-> NoBody, detail |-> "missing field"],
      [kind |-> "status", body |-> NoBody, detail |-> ""],
      [kind |-> "transport", body |-> NoBody, detail |-> ""] }

NoShap == "none"

ExplainResponses ==
    { [kind |-> "ok", body |-> "shapValues", detail |-> ""],
      [kind |-> "status", body |-> NoShap, detail |-> ""],
      [kind |-> "transport", body |-> NoShap, detail |-> ""] }

\* The answers of a backend that keeps to its protocol, and of one reached
\* through a gateway that answers in its place.
AnyPredictResponses ==
    PredictResponses \cup
    { [kind |-> "statusNotJson", body |-> NoBody, detail |-> ""],
      [kind |-> "okNotJson", body |-> NoBody, detail |-> ""] }

AnyExplainResponses ==
    ExplainResponses \cup
    { [kind |-> "status", body |-> NoShap, detail |-> "model not loaded"],
      [kind |-> "statusNotJson", body |-> NoShap, detail |-> ""] }

(***************************************************************************)
(* Promises.  st is "unsent" before fetch is called, "pending" while the   *)
(* request is outstanding, then "fulfilled" (value) or "rejected"          *)
(* (message of the reason).  answer keeps what the fetch was answered      *)
(* with.                                                                   *)
(***************************************************************************)
NoAnswer(noValue) == [kind |-> "none", body |-> noValue, detail |-> ""]

Unsent(noValue) ==
    [st |-> "unsent", value |-> noValue, message |-> "", answer |-> NoAnswer(noValue)]
Pending(noValue) ==
    [st |-> "pending", value |-> noValue, message |-> "", answer |-> NoAnswer(noValue)]

\* The .then(response => ...) handler chained on each fetch.
ThenResponse(resp, noValue, generic) ==
    CASE resp.kind = "ok" ->
           [st |-> "fulfilled", value |-> resp.body, message |-> "", answer |-> resp]
      [] resp.kind = "status" ->
           [st |-> "rejected", value |-> noValue,
            message |-> IF resp.detail # "" THEN resp.detail ELSE generic,
            answer |-> resp]
      [] resp.kind \in {"statusNotJson", "okNotJson"} ->
           [st |-> "rejected", value |-> noValue, message |-> JsonParseMessage,
            answer |-> resp]
      [] OTHER ->
           [st |-> "rejected", value |-> noValue, message |-> TransportMessage,
            answer |-> resp]

Settled(p) == p.st \in {"fulfilled", "rejected"}

(***************************************************************************)
(* Displayed values (React state of App).                                  *)
(***************************************************************************)
NullPrediction == [kind |-> "null", result |-> NoBody, error |-> ""]
OkPrediction(v) == [kind |-> "ok", result |-> v, error |-> ""]
ErrPrediction(m) == [kind |-> "error", result |-> NoBody, error |-> m]

NullShap == [kind |-> "null", result |-> NoShap, error |-> ""]
OkShap(v) == [kind |-> "ok", result |-> v, error |-> ""]
ErrShap(m) == [kind |-> "error", result |-> NoShap, error |-> m]

ClosedMessage == [open |-> FALSE, title |-> "", content |-> ""]

VARIABLES
    db,                  \* TRUE when the Firestore handle is set
    userId,              \* NoUser or the signed-in user's id
    isAuthReady,
    authPhase,           \* "unmounted", "listening" (auth listener registered), "settled"
    selectedDisease,
    prediction,
    shapData,
    isLoading,
    formData,            \* state of PredictionForm: field name -> value
    changeEvent,         \* e.target of the change event the form last handled
    isClearingHistory,
    clearHistoryMessage,
    predictionHistory,   \* sequence of disease names shown in the pie chart
    store,               \* documents of the user's prediction_history collection
    usedIds,             \* document ids the store has assigned so far
    subscribed,          \* the onSnapshot listener is registered
    snapQueue,           \* snapshots raised by the store, not yet delivered
    lastDelivered,       \* the snapshot the listener was last called with
    subs,                \* one frame per call of handlePrediction
    nSub,                \* calls of handlePrediction so far
    clear,               \* the frame of handleClearHistory
    nClear,              \* calls of handleClearHistory so far
    data,                \* state of PredictionChart: the summary it draws
    serverLog,           \* the predictions the backend has logged
    polls,               \* one frame per call of fetchData
    nPoll,               \* calls of fetchData so far
    reset,               \* the frame of handleReset
    nReset,              \* calls of handleReset so far
    lastReset            \* which call of handleReset last emptied the data

vars == <<db, userId, isAuthReady, authPhase, selectedDisease,
          prediction, shapData, isLoading, formData, changeEvent,
          isClearingHistory, clearHistoryMessage, predictionHistory, store, usedIds, subscribed,
          snapQueue, lastDelivered, subs, nSub, clear, nClear,
          data, serverLog, polls, nPoll, reset, nReset, lastReset>>

authVars == <<db, userId, isAuthReady, authPhase>>
displayVars == <<selectedDisease, prediction, shapData, isLoading>>
formVars == <<formData, changeEvent>>
chartVars == <<data, serverLog, polls, nPoll, reset, nReset, lastReset>>
clearVars == <<isClearingHistory, clearHistoryMessage, clear, nClear>>
storeVars == <<store, snapQueue>>
subVars == <<subs, nSub>>


(***************************************************************************)
(* The history store: documents, snapshots and the aggregation.            *)
(***************************************************************************)
\* Ids the store assigns to new documents.
DocIds == 1..(MaxSub + 1)

Doc(id, disease, result, fd) ==
    [id |-> id, disease_name |-> disease, prediction_result |-> result.prediction,
     probability |-> result.probability_has_disease, formData |-> fd]

IdsOf(S) == {d.id : d \in S}

\* What the user's collection can hold when the page loads: nothing, or an
\* entry written by an earlier session.
PriorDoc == Doc(2, availableDiseases[1], [prediction |-> 1, probability_has_disease |-> 82], "vectorA")

InitialStores == {{}, {PriorDoc}}

\* A query snapshot lists the documents in document-id order; ids are
\* assigned by the store, so that order is unrelated to insertion order.
RECURSIVE SortedDocs(_)
SortedDocs(S) ==
    IF S = {} THEN <<>>
    ELSE LET d == CHOOSE x \in S : \A y \in S : x.id <= y.id
         IN <<d>> \o SortedDocs(S \ {d})

\* A snapshot of the query of line 475, whose path names the user.
Snapshot(S, cause, clean) ==
    [docs |-> SortedDocs(S), cause |-> cause, clean |-> clean, user |-> userId]

NoSnapshot == [docs |-> <<>>, cause |-> "none", clean |-> FALSE, user |-> NoUser]

\* Raise with the listener not notified of a change.
RaiseNothing(q, S, cause, clean) == q

\* The store raises a snapshot for the registered listener on every change.
Raise(q, S, cause, clean) ==
    IF subscribed THEN Append(q, Snapshot(S, cause, clean)) ELSE q

\* HistoryOf keeping the disease of every entry, whatever its prediction.
RECURSIVE HistoryOfAll(_)
HistoryOfAll(docs) ==
    IF docs = <<>> THEN <<>>
    ELSE <<Head(docs).disease_name>> \o HistoryOfAll(Tail(docs))

\* The body of the onSnapshot callback: the history it builds from a snapshot.
RECURSIVE HistoryOf(_)
HistoryOf(docs) ==
    IF docs = <<>> THEN <<>>
    ELSE (IF Head(docs).prediction_result = 1 THEN <<Head(docs).disease_name>> ELSE <<>>)
         \o HistoryOf(Tail(docs))

\* CountInto with the accumulator started afresh by every disease not yet in
\* it, so that only the diseases of the last run of the history are counted.
RECURSIVE CountIntoFresh(_, _)
CountIntoFresh(acc, history) ==
    IF history = <<>> THEN acc
    ELSE LET disease == Head(history)
             next == IF disease \in DOMAIN acc
                     THEN [acc EXCEPT ![disease] = @ + 1]
                     ELSE [k \in {disease} |-> 1]
         IN CountIntoFresh(next, Tail(history))

\* CountInto with the count of a disease already seen set to 1 instead of
\* incremented.
RECURSIVE CountIntoOverwrite(_, _)
CountIntoOverwrite(acc, history) ==
    IF history = <<>> THEN acc
    ELSE LET disease == Head(history)
             next == [k \in DOMAIN acc \cup {disease} |->
                        IF k = disease THEN 1 ELSE acc[k]]
         IN CountIntoOverwrite(next, Tail(history))

\* predictionHistory.reduce(...) of PredictionPieChart: disease -> count.
RECURSIVE CountInto(_, _)
CountInto(acc, history) ==
    IF history = <<>> THEN acc
    ELSE LET disease == Head(history)
             next == IF disease \in DOMAIN acc
                     THEN [acc EXCEPT ![disease] = @ + 1]
                     ELSE [k \in DOMAIN acc \cup {disease} |->
                             IF k = disease THEN 1 ELSE acc[k]]
         IN CountInto(next, Tail(history))

EmptyCounts == [k \in {} |-> 0]

diseaseCounts(history) == CountInto(EmptyCounts, history)

RECURSIVE SumOver(_, _)
SumOver(f, keys) ==
    IF keys = {} THEN 0
    ELSE LET k == CHOOSE x \in keys : TRUE
         IN f[k] + SumOver(f, keys \ {k})

TotalCount(counts) == SumOver(counts, DOMAIN counts)

(***************************************************************************)
(* PredictionPieChart: the slices drawn from the counts.                   *)
(***************************************************************************)
Range(s) == {s[i] : i \in 1..Len(s)}

\* Object.keys(diseaseCounts): the keys in the order the reduce inserted
\* them, which is the order of first occurrence in the history.
RECURSIVE KeysInto(_, _)
KeysInto(keys, history) ==
    IF history = <<>> THEN keys
    ELSE KeysInto(IF Head(history) \in Range(keys) THEN keys
                  ELSE Append(keys, Head(history)),
                  Tail(history))

ObjectKeys(history) == KeysInto(<<>>, history)

\* disease.charAt(0).toUpperCase() + disease.slice(1)
Capitalised ==
    [disease \in Range(availableDiseases) |->
        CASE disease = "heart" -> "Heart"
          [] disease = "diabetes" -> "Diabetes"
          [] disease = "kidney" -> "Kidney"
          [] disease = "hypertension" -> "Hypertension"]

pieChartData(history) ==
    [n \in 1..Len(ObjectKeys(history)) |->
        [name  |-> Capitalised[ObjectKeys(history)[n]],
         value |-> diseaseCounts(history)[ObjectKeys(history)[n]]]]

\* primary, success, error and secondary of the theme.
COLORS == <<"#2196f3", "#4caf50", "#f44336", "#ff9800">>

\* fill of the Cell at (0-based) index of pieChartData.
CellFill(index) == COLORS[(index % Len(COLORS)) + 1]

\* The fill of the slice of a disease that the history holds.
FillOf(history, disease) ==
    CellFill((CHOOSE n \in 1..Len(ObjectKeys(history)) :
                 ObjectKeys(history)[n] = disease) - 1)

(***************************************************************************)
(* PredictionForm: the fields of a disease and what they hold.  Of every   *)
(* schema the first two fields are kept.                                   *)
(***************************************************************************)
forms ==
    [disease \in Categories |->
        CASE disease = "heart" ->
               <<[name |-> "Age", type |-> "number"], [name |-> "Sex", type |-> "select"]>>
          [] disease = "diabetes" ->
               <<[name |-> "Pregnancies", type |-> "number"],
                 [name |-> "Glucose", type |-> "number"]>>]

\* A field holds '' or a number.
Unset == [unset |-> TRUE, number |-> 0]
Number(n) == [unset |-> FALSE, number |-> n]

\* useState({}) of PredictionForm.
NoFields == [name \in {} |-> Unset]

\* Lines 299-302: every field of the disease set to ''.
initialData(disease) == [name \in {field.name : field \in Range(forms[disease])} |-> Unset]

\* e.target.value of a change event: the text of a number field, or the value
\* of the option picked in a select.
EventValues(field) ==
    IF field.type = "select" THEN {"", "0", "1"} ELSE {"", "0", "54"}

parseFloat == [text \in {"0", "1", "54"} |->
                 CASE text = "0" -> 0 [] text = "1" -> 1 [] OTHER -> 54]

\* No change event handled yet.
NoEvent == [name |-> "", value |-> ""]

\* newValue with the empty text taken for the number zero.
newValueOrZero(value) == IF value = "" THEN Number(0) ELSE Number(parseFloat[value])

\* Line 311: value === '' ? '' : parseFloat(value)
newValue(value) == IF value = "" THEN Unset ELSE Number(parseFloat[value])

(***************************************************************************)
(* Frames of the two async handlers.                                       *)
(***************************************************************************)
IdleFrame ==
    [pc |-> "idle", disease |-> NoDisease, formData |-> "none", hasStore |-> FALSE,
     predictionPromise |-> Unsent(NoBody), shapPromise |-> Unsent(NoShap),
     addDoc |-> "none", appends |-> 0]

IdleClear == [pc |-> "idle", readIds |-> {}, racedIds |-> {}]

\* A call of fetchData not made yet.
IdlePoll == [pc |-> "idle", body |-> <<>>, resets |-> 0]

Init ==
    /\ db = FALSE
    /\ userId = NoUser
    /\ isAuthReady = FALSE
    /\ authPhase = "unmounted"
    /\ selectedDisease = NoDisease
    /\ formData = NoFields
    /\ changeEvent = NoEvent
    /\ prediction = NullPrediction
    /\ shapData = NullShap
    /\ isLoading = FALSE
    /\ isClearingHistory = FALSE
    /\ clearHistoryMessage = ClosedMessage
    /\ predictionHistory = <<>>
    /\ store \in InitialStores
    /\ usedIds = IdsOf(store)
    /\ subscribed = FALSE
    /\ snapQueue = <<>>
    /\ lastDelivered = NoSnapshot
    /\ subs = [i \in 1..MaxSub |-> IdleFrame]
    /\ nSub = 0
    /\ clear = IdleClear
    /\ nClear = 0
    /\ data = <<>>
    /\ serverLog = <<>>
    /\ polls = [k \in 1..MaxPoll |-> IdlePoll]
    /\ nPoll = 0
    /\ reset = "idle"
    /\ nReset = 0
    /\ lastReset = 0

(***************************************************************************)
(* Firebase initialisation, authentication and the history subscription.   *)
(***************************************************************************)
\* The history effect: it subscribes once auth is ready and db and userId
\* are set; the store then raises the initial snapshot.
HistoryEffect(ready, hasDb, uid) ==
    IF ready /\ hasDb /\ uid # NoUser /\ ~subscribed
    THEN /\ subscribed' = TRUE
         /\ snapQueue' = Append(snapQueue,
                                 [Snapshot(store, "initial", FALSE) EXCEPT !.user = uid])
    ELSE UNCHANGED <<chartVars, formVars, subscribed, snapQueue>>

\* The mount effect: with a Firebase config it sets db and registers the auth
\* listener, without one it only marks auth as ready.
FirebaseInit ==
    /\ authPhase = "unmounted"
    /\ \E hasConfig \in BOOLEAN :
         /\ db' = hasConfig
         /\ isAuthReady' = ~hasConfig
         /\ authPhase' = IF hasConfig THEN "listening" ELSE "settled"
    /\ UNCHANGED <<chartVars, formVars, userId, subscribed, snapQueue>>
    /\ UNCHANGED <<chartVars, formVars, displayVars, clearVars, subVars, predictionHistory, store,
                   usedIds, lastDelivered>>

\* The onAuthStateChanged callback: a user is present or the sign-in
\* succeeds (userId is set), or the sign-in fails (userId stays null).
AuthStateChanged ==
    /\ authPhase = "listening"
    /\ authPhase' = "settled"
    /\ \E signedIn \in BOOLEAN :
         /\ userId' = IF signedIn THEN "user1" ELSE userId
         /\ isAuthReady' = TRUE
         /\ HistoryEffect(TRUE, db, userId')
    /\ UNCHANGED db
    /\ UNCHANGED <<chartVars, formVars, displayVars, clearVars, subVars, predictionHistory, store,
                   usedIds, lastDelivered>>

\* The collection of a second user: empty, or holding an entry of its own.
OtherDoc ==
    Doc(1, availableDiseases[2], [prediction |-> 1, probability_has_disease |-> 82], "vectorA")

OtherStores == {{}, {OtherDoc}}

\* AuthUserChanges with the listener on the previous user's collection left
\* registered next to the new one.
AuthUserChangesKeepingListener ==
    /\ authPhase = "settled"
    /\ db
    /\ userId # "user2"
    /\ \A i \in DOMAIN subs : subs[i].pc = "idle"
    /\ clear.pc = "idle"
    /\ userId' = "user2"
    /\ \E S \in OtherStores :
         /\ store' = S
         /\ usedIds' = IdsOf(S)
         /\ subscribed' = TRUE
         /\ snapQueue' = Append(snapQueue,
                                 [Snapshot(S, "initial", FALSE) EXCEPT !.user = "user2"])
    /\ UNCHANGED <<db, isAuthReady, authPhase>>
    /\ UNCHANGED <<chartVars, formVars, displayVars, clearVars, subVars, predictionHistory,
                   lastDelivered>>

\* The onAuthStateChanged callback called again, for another user: the one
\* signed in has been signed out and signInAnonymously has made a new user,
\* or a sign-in that had failed succeeds.  userId changes, so the history
\* effect is run again (lines 469-491): its cleanup unsubscribes the listener
\* there is, after which the Firestore client calls it no more, and its body
\* registers a listener on the collection of the new user, which from here
\* on is the collection the program reads and writes (store).  The change
\* comes while no call of handlePrediction or handleClearHistory is in
\* flight.
AuthUserChanges ==
    /\ authPhase = "settled"
    /\ db
    /\ userId # "user2"
    /\ \A i \in DOMAIN subs : subs[i].pc = "idle"
    /\ clear.pc = "idle"
    /\ userId' = "user2"
    /\ \E S \in OtherStores :
         /\ store' = S
         /\ usedIds' = IdsOf(S)
         /\ subscribed' = TRUE
         /\ snapQueue' = <<[Snapshot(S, "initial", FALSE) EXCEPT !.user = "user2"]>>
    /\ UNCHANGED <<db, isAuthReady, authPhase>>
    /\ UNCHANGED <<chartVars, formVars, displayVars, clearVars, subVars, predictionHistory,
                   lastDelivered>>

\* DeliverSnapshot adding the entries delivered to those already shown.
DeliverSnapshotAccumulating ==
    /\ subscribed
    /\ snapQueue # <<>>
    /\ predictionHistory' = predictionHistory \o HistoryOf(Head(snapQueue).docs)
    /\ lastDelivered' = Head(snapQueue)
    /\ snapQueue' = Tail(snapQueue)
    /\ UNCHANGED <<chartVars, formVars, authVars, displayVars, clearVars, subVars, store, usedIds, subscribed>>

\* The onSnapshot callback, run with the oldest undelivered snapshot.
DeliverSnapshot ==
    /\ subscribed
    /\ snapQueue # <<>>
    /\ predictionHistory' = HistoryOf(Head(snapQueue).docs)
    /\ lastDelivered' = Head(snapQueue)
    /\ snapQueue' = Tail(snapQueue)
    /\ UNCHANGED <<chartVars, formVars, authVars, displayVars, clearVars, subVars, store, usedIds, subscribed>>

\* The effect of PredictionForm that follows a change of selectedDisease
\* (lines 296-305) sets every field of the new disease to ''.
handleDiseaseSelect(disease) ==
    /\ isAuthReady
    /\ selectedDisease' = disease
    /\ prediction' = NullPrediction
    /\ shapData' = NullShap
    /\ formData' = IF disease # selectedDisease THEN initialData(disease) ELSE formData
    /\ UNCHANGED <<chartVars, changeEvent, authVars, isLoading, clearVars, subVars, predictionHistory,
                   storeVars, usedIds, subscribed, lastDelivered>>


(***************************************************************************)
(* PredictionForm.handleInputChange.                                       *)
(***************************************************************************)
\* forms[selectedDisease] || []
currentFormFields ==
    IF selectedDisease \in DOMAIN forms THEN forms[selectedDisease] ELSE <<>>

handleInputChange(name, value) ==
    /\ isAuthReady
    /\ selectedDisease # NoDisease
    /\ \E field \in Range(currentFormFields) :
          field.name = name /\ value \in EventValues(field)
    /\ formData' = [k \in DOMAIN formData \cup {name} |->
                      IF k = name THEN newValue(value) ELSE formData[k]]
    /\ changeEvent' = [name |-> name, value |-> value]
    /\ UNCHANGED <<chartVars, authVars, displayVars, clearVars, subVars, predictionHistory,
                   storeVars, usedIds, subscribed, lastDelivered>>

(***************************************************************************)
(* handlePrediction.                                                       *)
(***************************************************************************)
\* Submit with the explanation request not issued together with the
\* classification request.
SubmitSequential(i, fd) ==
    /\ isAuthReady
    /\ selectedDisease # NoDisease
    /\ ~isLoading
    /\ nSub < Len(subs)
    /\ i = nSub + 1
    /\ nSub' = nSub + 1
    /\ isLoading' = TRUE
    /\ prediction' = NullPrediction
    /\ shapData' = NullShap
    /\ subs' = [subs EXCEPT ![i] =
                  [IdleFrame EXCEPT !.pc = "inflight",
                                    !.disease = selectedDisease,
                                    !.formData = fd,
                                    !.hasStore = (db /\ userId # NoUser),
                                    !.predictionPromise = Pending(NoBody)]]
    /\ UNCHANGED <<chartVars, formVars, authVars, selectedDisease, clearVars, predictionHistory,
                   storeVars, usedIds, subscribed, lastDelivered>>

\* handlePrediction dropping the calls still in flight when it is entered.
handlePredictionSuperseding(i, fd) ==
    /\ isAuthReady
    /\ selectedDisease # NoDisease
    /\ nSub < Len(subs)
    /\ i = nSub + 1
    /\ nSub' = nSub + 1
    /\ isLoading' = TRUE
    /\ prediction' = NullPrediction
    /\ shapData' = NullShap
    /\ subs' = [j \in DOMAIN subs |->
                  IF j = i
                  THEN [IdleFrame EXCEPT !.pc = "inflight",
                                         !.disease = selectedDisease,
                                         !.formData = fd,
                                         !.hasStore = (db /\ userId # NoUser),
                                         !.predictionPromise = Pending(NoBody),
                                         !.shapPromise = Pending(NoShap)]
                  ELSE IdleFrame]
    /\ UNCHANGED <<chartVars, formVars, authVars, selectedDisease, clearVars, predictionHistory,
                   storeVars, usedIds, subscribed, lastDelivered>>

\* Lines 511-547: the loading flag is set, the displayed result is reset and
\* both fetches are issued before the handler suspends on Promise.allSettled.
\* The call takes the next free frame.
handlePrediction(i, fd) ==
    /\ isAuthReady
    /\ selectedDisease # NoDisease
    /\ nSub < Len(subs)
    /\ i = nSub + 1
    /\ nSub' = nSub + 1
    /\ isLoading' = TRUE
    /\ prediction' = NullPrediction
    /\ shapData' = NullShap
    /\ subs' = [subs EXCEPT ![i] =
                  [IdleFrame EXCEPT !.pc = "inflight",
                                    !.disease = selectedDisease,
                                    !.formData = fd,
                                    !.hasStore = (db /\ userId # NoUser),
                                    !.predictionPromise = Pending(NoBody),
                                    !.shapPromise = Pending(NoShap)]]
    /\ UNCHANGED <<chartVars, formVars, authVars, selectedDisease, clearVars, predictionHistory,
                   storeVars, usedIds, subscribed, lastDelivered>>

\* The form's submit: its button is disabled while isLoading is true.
Submit(i, fd) == ~isLoading /\ handlePrediction(i, fd)

\* PredictResponds with a rejected request sent again and answered anew.
PredictRespondsRetrying(i, resp) ==
    /\ subs[i].predictionPromise.st \in {"pending", "rejected"}
    /\ subs' = [subs EXCEPT ![i].predictionPromise =
                  ThenResponse(resp, NoBody, PredictionGenericMessage)]
    /\ UNCHANGED <<chartVars, formVars, authVars, displayVars, clearVars, nSub, predictionHistory,
                   storeVars, usedIds, subscribed, lastDelivered>>

\* The backend answers POST /predict/{disease}.
PredictResponds(i, resp) ==
    /\ subs[i].predictionPromise.st = "pending"
    /\ subs' = [subs EXCEPT ![i].predictionPromise =
                  ThenResponse(resp, NoBody, PredictionGenericMessage)]
    /\ UNCHANGED <<chartVars, formVars, authVars, displayVars, clearVars, nSub, predictionHistory,
                   storeVars, usedIds, subscribed, lastDelivered>>

\* The backend answers POST /explain/{disease}.
ExplainResponds(i, resp) ==
    /\ subs[i].shapPromise.st = "pending"
    /\ subs' = [subs EXCEPT ![i].shapPromise =
                  ThenResponse(resp, NoShap, ShapGenericMessage)]
    /\ UNCHANGED <<chartVars, formVars, authVars, displayVars, clearVars, nSub, predictionHistory,
                   storeVars, usedIds, subscribed, lastDelivered>>

\* AllSettled waiting for the classification call only.
PredictionSettledOnly(f) == Settled(f.predictionPromise)

\* Promise.allSettled([predictionPromise, shapPromise]) has resolved.
AllSettled(f) == Settled(f.predictionPromise) /\ Settled(f.shapPromise)

\* Lines 573-578: what setShapData is called with.
ShapOutcome(f) ==
    IF f.shapPromise.st = "fulfilled"
    THEN OkShap(f.shapPromise.value)
    ELSE ErrShap(f.shapPromise.message)

\* Lines 550-553 and 567-568: what setPrediction is called with.
PredictionOutcome(f) ==
    IF f.predictionPromise.st = "fulfilled"
    THEN OkPrediction(f.predictionPromise.value)
    ELSE ErrPrediction(f.predictionPromise.message)

\* AwaitsAddDoc with the test of the classification outcome dropped.
AwaitsAddDocAlways(f) == f.hasStore

\* AwaitsAddDoc with the save skipped.
AwaitsAddDocNever(f) == FALSE

\* AwaitsAddDoc with the test of db and userId dropped.
AwaitsAddDocUnguarded(f) == f.predictionPromise.st = "fulfilled"

\* Line 555 under line 550: the handler awaits addDoc.
AwaitsAddDoc(f) == f.predictionPromise.st = "fulfilled" /\ f.hasStore

\* ResumeSettled clearing the loading flag before the await of addDoc.
ResumeSettledClearingFlag(i) ==
    /\ subs[i].pc = "inflight"
    /\ AllSettled(subs[i])
    /\ prediction' = PredictionOutcome(subs[i])
    /\ isLoading' = FALSE
    /\ IF AwaitsAddDoc(subs[i])
       THEN /\ subs' = [subs EXCEPT ![i].pc = "appending", ![i].addDoc = "pending"]
            /\ UNCHANGED shapData
       ELSE /\ shapData' = ShapOutcome(subs[i])
            /\ subs' = [subs EXCEPT ![i] = IdleFrame]
    /\ UNCHANGED <<chartVars, formVars, authVars, selectedDisease, clearVars, nSub, predictionHistory,
                   storeVars, usedIds, subscribed, lastDelivered>>

\* ResumeSettled handling the explanation before the await of addDoc.
ResumeSettledShapFirst(i) ==
    /\ subs[i].pc = "inflight"
    /\ AllSettled(subs[i])
    /\ prediction' = PredictionOutcome(subs[i])
    /\ shapData' = ShapOutcome(subs[i])
    /\ IF AwaitsAddDoc(subs[i])
       THEN /\ subs' = [subs EXCEPT ![i].pc = "appending", ![i].addDoc = "pending"]
            /\ UNCHANGED isLoading
       ELSE /\ isLoading' = FALSE
            /\ subs' = [subs EXCEPT ![i] = IdleFrame]
    /\ UNCHANGED <<chartVars, formVars, authVars, selectedDisease, clearVars, nSub, predictionHistory,
                   storeVars, usedIds, subscribed, lastDelivered>>

\* Lines 547-585, from the resolution of Promise.allSettled to the await of
\* addDoc or, without one, through finally to the return of the handler,
\* whose frame is then gone.
ResumeSettled(i) ==
    /\ subs[i].pc = "inflight"
    /\ AllSettled(subs[i])
    /\ prediction' = PredictionOutcome(subs[i])
    /\ IF AwaitsAddDoc(subs[i])
       THEN /\ subs' = [subs EXCEPT ![i].pc = "appending", ![i].addDoc = "pending"]
            /\ UNCHANGED <<chartVars, formVars, shapData, isLoading>>
       ELSE /\ shapData' = ShapOutcome(subs[i])
            /\ isLoading' = FALSE
            /\ subs' = [subs EXCEPT ![i] = IdleFrame]
    /\ UNCHANGED <<chartVars, formVars, authVars, selectedDisease, clearVars, nSub, predictionHistory,
                   storeVars, usedIds, subscribed, lastDelivered>>

\* HistoryEntry built from what is selected and what the form holds when the
\* document is written.
HistoryEntryOfCurrent(f, id) ==
    Doc(id, selectedDisease, f.predictionPromise.value, formData)

\* Lines 559-565: the document addDoc writes.
HistoryEntry(f, id) == Doc(id, f.disease, f.predictionPromise.value, f.formData)

\* StoreAccepts keeping one document per disease, a later write replacing
\* the earlier one.
StoreAcceptsPerDisease(i, id) ==
    /\ subs[i].pc = "appending"
    /\ subs[i].addDoc = "pending"
    /\ id \in DocIds \ usedIds
    /\ store' = {d \in store : d.disease_name # subs[i].disease}
                   \cup {HistoryEntry(subs[i], id)}
    /\ usedIds' = usedIds \cup {id}
    /\ snapQueue' = Raise(snapQueue, store', "append", FALSE)
    /\ subs' = [subs EXCEPT ![i].addDoc = "fulfilled", ![i].appends = @ + 1]
    /\ clear' = IF clear.pc = "committing"
                THEN [clear EXCEPT !.racedIds = @ \cup {id}]
                ELSE clear
    /\ UNCHANGED <<chartVars, formVars, authVars, displayVars, isClearingHistory, clearHistoryMessage,
                   nClear, nSub, predictionHistory, subscribed, lastDelivered>>

\* StoreAccepts writing over the stored document of the same disease, when
\* there is one, in place of adding a document.
StoreAcceptsUpdating(i, id) ==
    /\ subs[i].pc = "appending"
    /\ subs[i].addDoc = "pending"
    /\ id \in DocIds \ usedIds
    /\ store' = IF \E d \in store : d.disease_name = subs[i].disease
                THEN {IF d.disease_name = subs[i].disease
                      THEN HistoryEntry(subs[i], d.id) ELSE d : d \in store}
                ELSE store \cup {HistoryEntry(subs[i], id)}
    /\ usedIds' = usedIds \cup {id}
    /\ snapQueue' = Raise(snapQueue, store', "append", FALSE)
    /\ subs' = [subs EXCEPT ![i].addDoc = "fulfilled", ![i].appends = @ + 1]
    /\ clear' = IF clear.pc = "committing"
                THEN [clear EXCEPT !.racedIds = @ \cup {id}]
                ELSE clear
    /\ UNCHANGED <<chartVars, formVars, authVars, displayVars, isClearingHistory, clearHistoryMessage,
                   nClear, nSub, predictionHistory, subscribed, lastDelivered>>

\* Firestore accepts the write of addDoc: the document is in the collection
\* under a fresh id and the listener is notified.
StoreAccepts(i, id) ==
    /\ subs[i].pc = "appending"
    /\ subs[i].addDoc = "pending"
    /\ id \in DocIds \ usedIds
    /\ store' = store \cup {HistoryEntry(subs[i], id)}
    /\ usedIds' = usedIds \cup {id}
    /\ snapQueue' = Raise(snapQueue, store', "append", FALSE)
    /\ subs' = [subs EXCEPT ![i].addDoc = "fulfilled", ![i].appends = @ + 1]
    /\ clear' = IF clear.pc = "committing"
                THEN [clear EXCEPT !.racedIds = @ \cup {id}]
                ELSE clear
    /\ UNCHANGED <<chartVars, formVars, authVars, displayVars, isClearingHistory, clearHistoryMessage,
                   nClear, nSub, predictionHistory, subscribed, lastDelivered>>

\* Firestore rejects the write of addDoc (permission, quota, connectivity).
StoreRejects(i) ==
    /\ subs[i].pc = "appending"
    /\ subs[i].addDoc = "pending"
    /\ subs' = [subs EXCEPT ![i].addDoc = "rejected"]
    /\ UNCHANGED <<chartVars, formVars, authVars, displayVars, clearVars, nSub, predictionHistory,
                   storeVars, usedIds, subscribed, lastDelivered>>

\* Lines 579-582: what the catch clause displays.
CatchPrediction == ErrPrediction(ConnectMessage)
CatchShap == NullShap

\* ResumeAppended displaying its own call's result again when it returns.
ResumeAppendedRedisplaying(i) ==
    /\ subs[i].pc = "appending"
    /\ subs[i].addDoc \in {"fulfilled", "rejected"}
    /\ IF subs[i].addDoc = "fulfilled"
       THEN /\ shapData' = ShapOutcome(subs[i])
            /\ prediction' = PredictionOutcome(subs[i])
       ELSE /\ prediction' = CatchPrediction
            /\ shapData' = CatchShap
    /\ isLoading' = FALSE
    /\ subs' = [subs EXCEPT ![i] = IdleFrame]
    /\ UNCHANGED <<chartVars, formVars, authVars, selectedDisease, clearVars, nSub, predictionHistory,
                   storeVars, usedIds, subscribed, lastDelivered>>

\* Lines 566-585 after the await of addDoc: on success the explanation is
\* handled, on failure control passes to the catch clause; then finally and
\* the return of the handler.
ResumeAppended(i) ==
    /\ subs[i].pc = "appending"
    /\ subs[i].addDoc \in {"fulfilled", "rejected"}
    /\ IF subs[i].addDoc = "fulfilled"
       THEN /\ shapData' = ShapOutcome(subs[i])
            /\ UNCHANGED prediction
       ELSE /\ prediction' = CatchPrediction
            /\ shapData' = CatchShap
    /\ isLoading' = FALSE
    /\ subs' = [subs EXCEPT ![i] = IdleFrame]
    /\ UNCHANGED <<chartVars, formVars, authVars, selectedDisease, clearVars, nSub, predictionHistory,
                   storeVars, usedIds, subscribed, lastDelivered>>

(***************************************************************************)
(* handleClearHistory.                                                     *)
(***************************************************************************)
\* Lines 592-601: the guard on db and userId, the flag, and the getDocs call.
\* The Clear History button is disabled while isClearingHistory is true.
ClearStart ==
    /\ isAuthReady
    /\ selectedDisease # NoDisease
    /\ ~isClearingHistory
    /\ nClear < MaxClear
    /\ db /\ userId # NoUser
    /\ nClear' = nClear + 1
    /\ isClearingHistory' = TRUE
    /\ clear' = [IdleClear EXCEPT !.pc = "reading"]
    /\ UNCHANGED <<chartVars, formVars, authVars, displayVars, clearHistoryMessage, subVars,
                   predictionHistory, storeVars, usedIds, subscribed, lastDelivered>>

\* getDocs resolves; lines 602-608 build the batch from the documents read
\* and call batch.commit().
ClearRead ==
    /\ clear.pc = "reading"
    /\ clear' = [clear EXCEPT !.pc = "committing", !.readIds = IdsOf(store)]
    /\ UNCHANGED <<chartVars, formVars, authVars, displayVars, isClearingHistory, clearHistoryMessage,
                   nClear, subVars, predictionHistory, storeVars, usedIds,
                   subscribed, lastDelivered>>

\* BatchDelete deleting whatever the collection holds at commit time.
BatchDeleteAll(S, ids) == {}

\* BatchDelete with the last document read left out of the batch.
BatchDeleteButLast(S, ids) ==
    {d \in S : d.id \notin ids \/ (\A j \in ids : j <= d.id)}

\* What the batch removes from the collection.
BatchDelete(S, ids) == {d \in S : d.id \notin ids}

\* ClearCommits with the documents read deleted one write at a time, lowest
\* id first, the listener notified after each.
ClearCommitsOneByOne ==
    /\ clear.pc = "committing"
    /\ LET left == {d \in store : d.id \in clear.readIds}
           first == CHOOSE d \in left : \A e \in left : d.id <= e.id
       IN IF left = {}
          THEN /\ store' = store
               /\ snapQueue' = snapQueue
               /\ clear' = [clear EXCEPT !.pc = "committed"]
          ELSE /\ store' = store \ {first}
               /\ snapQueue' = Raise(snapQueue, store', "clear", clear.racedIds = {})
               /\ clear' = IF left = {first}
                           THEN [clear EXCEPT !.pc = "committed"]
                           ELSE clear
    /\ UNCHANGED <<chartVars, formVars, authVars, displayVars, isClearingHistory, clearHistoryMessage,
                   nClear, subVars, predictionHistory, usedIds, subscribed,
                   lastDelivered>>

\* Firestore applies the batch: the deletes take effect together and the
\* listener is notified when the collection changed.
ClearCommits ==
    /\ clear.pc = "committing"
    /\ store' = BatchDelete(store, clear.readIds)
    /\ snapQueue' = IF store' # store
                    THEN Raise(snapQueue, store', "clear", clear.racedIds = {})
                    ELSE snapQueue
    /\ clear' = [clear EXCEPT !.pc = "committed"]
    /\ UNCHANGED <<chartVars, formVars, authVars, displayVars, isClearingHistory, clearHistoryMessage,
                   nClear, subVars, predictionHistory, usedIds, subscribed,
                   lastDelivered>>

\* getDocs or batch.commit() rejects.
ClearRejects ==
    /\ clear.pc \in {"reading", "committing"}
    /\ clear' = [clear EXCEPT !.pc = "rejected"]
    /\ UNCHANGED <<chartVars, formVars, authVars, displayVars, isClearingHistory, clearHistoryMessage,
                   nClear, subVars, predictionHistory, storeVars, usedIds,
                   subscribed, lastDelivered>>

\* ClearResume opening the Success dialog whether or not the clearing failed.
ClearResumeAlwaysSuccess ==
    /\ clear.pc \in {"committed", "rejected"}
    /\ clearHistoryMessage' =
         [open |-> TRUE, title |-> "Success",
          content |-> "Prediction history cleared successfully."]
    /\ clear' = IdleClear
    /\ isClearingHistory' = FALSE
    /\ UNCHANGED <<chartVars, formVars, authVars, displayVars, nClear, subVars, predictionHistory,
                   storeVars, usedIds, subscribed, lastDelivered>>

\* ClearResume with the flag reset after the Success dialog, inside the try
\* block, instead of in finally.
ClearResumeKeepingFlag ==
    /\ clear.pc \in {"committed", "rejected"}
    /\ IF clear.pc = "committed"
       THEN /\ clearHistoryMessage' =
                 [open |-> TRUE, title |-> "Success",
                  content |-> "Prediction history cleared successfully."]
            /\ isClearingHistory' = FALSE
       ELSE /\ clearHistoryMessage' =
                 [open |-> TRUE, title |-> "Error",
                  content |-> "Failed to clear history. Please try again."]
            /\ UNCHANGED isClearingHistory
    /\ clear' = IdleClear
    /\ UNCHANGED <<chartVars, formVars, authVars, displayVars, nClear, subVars, predictionHistory,
                   storeVars, usedIds, subscribed, lastDelivered>>

\* Lines 609-616: the Success dialog after the commit, the Error dialog from
\* the catch clause, and the flag reset in finally.
ClearResume ==
    /\ clear.pc \in {"committed", "rejected"}
    /\ IF clear.pc = "committed"
       THEN /\ clearHistoryMessage' =
                 [open |-> TRUE, title |-> "Success",
                  content |-> "Prediction history cleared successfully."]
            /\ clear' = IdleClear
       ELSE /\ clearHistoryMessage' =
                 [open |-> TRUE, title |-> "Error",
                  content |-> "Failed to clear history. Please try again."]
            /\ clear' = IdleClear
    /\ isClearingHistory' = FALSE
    /\ UNCHANGED <<chartVars, formVars, authVars, displayVars, nClear, subVars, predictionHistory,
                   storeVars, usedIds, subscribed, lastDelivered>>

\* handleClearHistory with the test of db and userId dropped.
ClearStartsUnguarded ==
    /\ isAuthReady
    /\ selectedDisease # NoDisease
    /\ ~isClearingHistory
    /\ nClear < MaxClear
    /\ ~(db /\ userId # NoUser)
    /\ nClear' = nClear + 1
    /\ isClearingHistory' = TRUE
    /\ clear' = [IdleClear EXCEPT !.pc = "reading"]
    /\ UNCHANGED <<chartVars, formVars, authVars, displayVars, clearHistoryMessage, subVars,
                   predictionHistory, storeVars, usedIds, subscribed, lastDelivered>>

\* Line 593: handleClearHistory called without db or without a user id
\* returns at once.
ClearReturnsEarly ==
    /\ isAuthReady
    /\ selectedDisease # NoDisease
    /\ ~isClearingHistory
    /\ nClear < MaxClear
    /\ ~(db /\ userId # NoUser)
    /\ nClear' = nClear + 1
    /\ UNCHANGED <<chartVars, formVars, authVars, displayVars, isClearingHistory, clearHistoryMessage,
                   clear, subVars, predictionHistory, storeVars, usedIds, subscribed,
                   lastDelivered>>

\* Lines 619-621: the OK button of the dialog, or a click outside it.
handleCloseClearHistoryMessage ==
    /\ clearHistoryMessage.open
    /\ clearHistoryMessage' = [clearHistoryMessage EXCEPT !.open = FALSE]
    /\ UNCHANGED <<chartVars, formVars, authVars, displayVars, isClearingHistory, clear, nClear,
                   subVars, predictionHistory, storeVars, usedIds, subscribed,
                   lastDelivered>>

(***************************************************************************)
(* PredictionChart: the statistics chart that polls the backend's summary  *)
(* of the predictions it has logged, and its Reset Logs button.            *)
(***************************************************************************)
appVars == <<authVars, displayVars, formVars, clearVars, storeVars, subVars,
             predictionHistory, usedIds, subscribed, lastDelivered>>

\* The body of GET /summary: one {disease, count} per disease logged.
summaryOf(log) ==
    [n \in 1..Len(ObjectKeys(log)) |->
        [disease |-> ObjectKeys(log)[n], count |-> diseaseCounts(log)[ObjectKeys(log)[n]]]]

\* A prediction is logged by the backend.
BackendLogs(disease) ==
    /\ Len(serverLog) < MaxLog
    /\ serverLog' = Append(serverLog, disease)
    /\ UNCHANGED <<appVars, data, polls, nPoll, reset, nReset, lastReset>>

\* Lines 1096-1097, called on mount and by the interval every 5 seconds: the
\* GET is sent.  The frame remembers how many calls of handleReset had been
\* made by then.
fetchData(k) ==
    /\ nPoll < Len(polls)
    /\ k = nPoll + 1
    /\ nPoll' = nPoll + 1
    /\ polls' = [polls EXCEPT ![k] = [pc |-> "sent", body |-> <<>>, resets |-> nReset]]
    /\ UNCHANGED <<appVars, data, serverLog, reset, nReset, lastReset>>

\* The backend answers GET /summary with what it has logged by now.
SummaryAnswers(k) ==
    /\ polls[k].pc = "sent"
    /\ polls' = [polls EXCEPT ![k].pc = "answered", ![k].body = summaryOf(serverLog)]
    /\ UNCHANGED <<appVars, data, serverLog, nPoll, reset, nReset, lastReset>>

\* GET /summary fails.
SummaryFails(k) ==
    /\ polls[k].pc = "sent"
    /\ polls' = [polls EXCEPT ![k].pc = "failed"]
    /\ UNCHANGED <<appVars, data, serverLog, nPoll, reset, nReset, lastReset>>

\* Line 1098: .then(res => setData(res.data))
fetchDataThen(k) ==
    /\ polls[k].pc = "answered"
    /\ data' = polls[k].body
    /\ polls' = [polls EXCEPT ![k].pc = "done"]
    /\ UNCHANGED <<appVars, serverLog, nPoll, reset, nReset, lastReset>>

\* Line 1099: .catch logs the error.
fetchDataCatch(k) ==
    /\ polls[k].pc = "failed"
    /\ polls' = [polls EXCEPT ![k].pc = "done"]
    /\ UNCHANGED <<appVars, data, serverLog, nPoll, reset, nReset, lastReset>>

\* Lines 1107-1109: a click on Reset Logs sends the DELETE.  One call of
\* handleReset at a time is explored.
handleReset ==
    /\ reset = "idle"
    /\ nReset < MaxReset
    /\ nReset' = nReset + 1
    /\ reset' = "sent"
    /\ UNCHANGED <<appVars, data, serverLog, polls, nPoll, lastReset>>

\* The backend empties its log and answers DELETE /reset-logs.
ResetAnswers ==
    /\ reset = "sent"
    /\ serverLog' = <<>>
    /\ reset' = "fulfilled"
    /\ UNCHANGED <<appVars, data, polls, nPoll, nReset, lastReset>>

\* DELETE /reset-logs fails, before or after the backend has emptied its log.
ResetFails ==
    /\ reset = "sent"
    /\ serverLog' \in {serverLog, <<>>}
    /\ reset' = "rejected"
    /\ UNCHANGED <<appVars, data, polls, nPoll, nReset, lastReset>>

\* Lines 1110-1113: setData([]) after the await, or the catch clause.
handleResetResume ==
    /\ reset \in {"fulfilled", "rejected"}
    /\ IF reset = "fulfilled"
       THEN data' = <<>> /\ lastReset' = nReset
       ELSE UNCHANGED <<data, lastReset>>
    /\ reset' = "idle"
    /\ UNCHANGED <<appVars, serverLog, polls, nPoll, nReset>>

\* The chart alone.  Responses arrive in any order.
InitChart == Init /\ store = {}

NextChart ==
    \/ \E disease \in Categories : BackendLogs(disease)
    \/ \E k \in 1..MaxPoll : fetchData(k)
    \/ \E k \in 1..MaxPoll : SummaryAnswers(k)
    \/ \E k \in 1..MaxPoll : SummaryFails(k)
    \/ \E k \in 1..MaxPoll : fetchDataThen(k)
    \/ \E k \in 1..MaxPoll : fetchDataCatch(k)
    \/ handleReset
    \/ ResetAnswers
    \/ ResetFails
    \/ handleResetResume

SpecChart == InitChart /\ [][NextChart]_vars

Next ==
    \/ FirebaseInit
    \/ AuthStateChanged
    \/ DeliverSnapshot
    \/ \E disease \in Categories : handleDiseaseSelect(disease)
    \/ \E i \in 1..MaxSub, fd \in FormInputs : Submit(i, fd)
    \/ \E i \in 1..MaxSub, resp \in PredictResponses : PredictResponds(i, resp)
    \/ \E i \in 1..MaxSub, resp \in ExplainResponses : ExplainResponds(i, resp)
    \/ \E i \in 1..MaxSub : ResumeSettled(i)
    \/ \E i \in 1..MaxSub, id \in DocIds : StoreAccepts(i, id)
    \/ \E i \in 1..MaxSub : StoreRejects(i)
    \/ \E i \in 1..MaxSub : ResumeAppended(i)
    \/ ClearStart
    \/ ClearRead
    \/ ClearCommits
    \/ ClearRejects
    \/ ClearResume

Spec == Init /\ [][Next]_vars

\* The user picks a disease on the selection screen.
selectFirstDisease(disease) == selectedDisease = NoDisease /\ handleDiseaseSelect(disease)

\* What changes the collection and what the listener is handed: one disease
\* is selected, the backend answers every request, and every snapshot the
\* store has raised is delivered in the end (the Firestore client calls the
\* callback of onSnapshot for each snapshot it has queued, and nothing in the
\* program holds it back).
NextLive ==
    \/ FirebaseInit
    \/ AuthStateChanged
    \/ DeliverSnapshot
    \/ \E disease \in Categories : selectFirstDisease(disease)
    \/ \E i \in 1..MaxSub, fd \in FormInputs : Submit(i, fd)
    \/ \E i \in 1..MaxSub, resp \in {r \in PredictResponses : r.kind = "ok"} :
          PredictResponds(i, resp)
    \/ \E i \in 1..MaxSub, resp \in {r \in ExplainResponses : r.kind = "ok"} :
          ExplainResponds(i, resp)
    \/ \E i \in 1..MaxSub : ResumeSettled(i)
    \/ \E i \in 1..MaxSub, id \in DocIds : StoreAccepts(i, id)
    \/ \E i \in 1..MaxSub : StoreRejects(i)
    \/ \E i \in 1..MaxSub : ResumeAppended(i)
    \/ ClearStart
    \/ ClearRead
    \/ ClearCommits
    \/ ClearRejects
    \/ ClearResume

SpecLive == Init /\ [][NextLive]_vars /\ WF_vars(DeliverSnapshot)

\* Clearing next to submissions, with or without a store handle, on a
\* history that is delivered and a dialog that the user closes.  The continuation of
\* handleClearHistory runs once getDocs or batch.commit() has settled: the
\* reaction of a settled promise is a job the event loop runs.
NextClear ==
    \/ FirebaseInit
    \/ AuthStateChanged
    \/ DeliverSnapshot
    \/ \E disease \in Categories : selectFirstDisease(disease)
    \/ \E i \in 1..MaxSub, fd \in FormInputs : Submit(i, fd)
    \/ \E i \in 1..MaxSub, resp \in {r \in PredictResponses : r.kind = "ok"} :
          PredictResponds(i, resp)
    \/ \E i \in 1..MaxSub, resp \in {r \in ExplainResponses : r.kind = "ok"} :
          ExplainResponds(i, resp)
    \/ \E i \in 1..MaxSub : ResumeSettled(i)
    \/ \E i \in 1..MaxSub, id \in DocIds : StoreAccepts(i, id)
    \/ \E i \in 1..MaxSub : StoreRejects(i)
    \/ \E i \in 1..MaxSub : ResumeAppended(i)
    \/ ClearStart
    \/ ClearReturnsEarly
    \/ ClearRead
    \/ ClearCommits
    \/ ClearRejects
    \/ ClearResume
    \/ handleCloseClearHistoryMessage

SpecClear == Init /\ [][NextClear]_vars /\ WF_vars(ClearResume)

\* Sign-in, a change of user, submissions, clearings and the deliveries of
\* the history listener.
NextAuth ==
    \/ FirebaseInit
    \/ AuthStateChanged
    \/ AuthUserChanges
    \/ DeliverSnapshot
    \/ \E disease \in Categories : selectFirstDisease(disease)
    \/ \E i \in 1..MaxSub, fd \in FormInputs : Submit(i, fd)
    \/ \E i \in 1..MaxSub, resp \in {r \in PredictResponses : r.kind = "ok"} :
          PredictResponds(i, resp)
    \/ \E i \in 1..MaxSub, resp \in {r \in ExplainResponses : r.kind = "ok"} :
          ExplainResponds(i, resp)
    \/ \E i \in 1..MaxSub : ResumeSettled(i)
    \/ \E i \in 1..MaxSub, id \in DocIds : StoreAccepts(i, id)
    \/ \E i \in 1..MaxSub : StoreRejects(i)
    \/ \E i \in 1..MaxSub : ResumeAppended(i)
    \/ ClearStart
    \/ ClearRead
    \/ ClearCommits
    \/ ClearRejects
    \/ ClearResume

SpecAuth == Init /\ [][NextAuth]_vars

\* The program without the clearing of the history, in front of a backend
\* that may answer outside its protocol.
NextBackend ==
    \/ FirebaseInit
    \/ AuthStateChanged
    \/ DeliverSnapshot
    \/ \E disease \in Categories : handleDiseaseSelect(disease)
    \/ \E i \in 1..MaxSub, fd \in FormInputs : Submit(i, fd)
    \/ \E i \in 1..MaxSub, resp \in AnyPredictResponses : PredictResponds(i, resp)
    \/ \E i \in 1..MaxSub, resp \in AnyExplainResponses : ExplainResponds(i, resp)
    \/ \E i \in 1..MaxSub : ResumeSettled(i)
    \/ \E i \in 1..MaxSub, id \in DocIds : StoreAccepts(i, id)
    \/ \E i \in 1..MaxSub : StoreRejects(i)
    \/ \E i \in 1..MaxSub : ResumeAppended(i)

SpecBackend == Init /\ [][NextBackend]_vars

\* The submissions against every answer of the backend, with the
\* continuations of handlePrediction run once what they await has settled:
\* the reaction of a settled promise is a job the event loop runs.
SpecReturn ==
    /\ Init
    /\ [][NextBackend]_vars
    /\ \A i \in 1..MaxSub : WF_vars(ResumeSettled(i)) /\ WF_vars(ResumeAppended(i))

\* The browser lets a form be submitted once none of its required text
\* fields is empty.
Submittable ==
    \A field \in Range(currentFormFields) :
        field.type = "number" => ~formData[field.name].unset

\* PredictionForm.handleSubmit: handlePrediction with what the form holds.
handleSubmit(i) == Submittable /\ Submit(i, formData)

\* The form and the submissions made from it, on a history that starts
\* empty.
InitForm == Init /\ store = {}

NextForm ==
    \/ FirebaseInit
    \/ AuthStateChanged
    \/ \E disease \in Categories : handleDiseaseSelect(disease)
    \/ \E name \in {"Age", "Sex", "Pregnancies", "Glucose"}, value \in {"", "1", "54"} :
          handleInputChange(name, value)
    \/ \E i \in 1..MaxSub : handleSubmit(i)
    \/ \E i \in 1..MaxSub, resp \in PredictResponses : PredictResponds(i, resp)
    \/ \E i \in 1..MaxSub, resp \in ExplainResponses : ExplainResponds(i, resp)
    \/ \E i \in 1..MaxSub : ResumeSettled(i)
    \/ \E i \in 1..MaxSub, id \in DocIds : StoreAccepts(i, id)
    \/ \E i \in 1..MaxSub : StoreRejects(i)
    \/ \E i \in 1..MaxSub : ResumeAppended(i)

SpecForm == InitForm /\ [][NextForm]_vars

\* The form alone: the fields under every change event and every selection.
NextFields ==
    \/ FirebaseInit
    \/ AuthStateChanged
    \/ \E disease \in Categories : handleDiseaseSelect(disease)
    \/ \E name \in {"Age", "Sex", "Pregnancies", "Glucose"}, value \in {"", "0", "1", "54"} :
          handleInputChange(name, value)

SpecFields == InitForm /\ [][NextFields]_vars

\* handlePrediction entered again while earlier calls of it are in flight.
\* The behaviours start where the user is signed in, the listener has been
\* handed the snapshot of an empty history and a disease is selected.
InitOverlap ==
    /\ db = TRUE
    /\ userId = "user1"
    /\ isAuthReady = TRUE
    /\ authPhase = "settled"
    /\ selectedDisease \in Categories
    /\ formData = initialData(selectedDisease)
    /\ changeEvent = NoEvent
    /\ prediction = NullPrediction
    /\ shapData = NullShap
    /\ isLoading = FALSE
    /\ isClearingHistory = FALSE
    /\ clearHistoryMessage = ClosedMessage
    /\ predictionHistory = <<>>
    /\ store = {}
    /\ usedIds = {}
    /\ subscribed = TRUE
    /\ snapQueue = <<>>
    /\ lastDelivered = Snapshot({}, "initial", FALSE)
    /\ subs = [i \in 1..MaxOverlap |-> IdleFrame]
    /\ nSub = 0
    /\ clear = IdleClear
    /\ nClear = 0
    /\ data = <<>>
    /\ serverLog = <<>>
    /\ polls = [k \in 1..MaxPoll |-> IdlePoll]
    /\ nPoll = 0
    /\ reset = "idle"
    /\ nReset = 0
    /\ lastReset = 0

\* The answers the overlapping calls get: a positive or a negative
\* prediction, a failure status or none at all; an explanation or a failure
\* status.
OverlapPredictResponses == {r \in PredictResponses : r.detail = ""}
OverlapExplainResponses == {r \in ExplainResponses : r.kind # "transport"}

NextOverlap ==
    \/ DeliverSnapshot
    \/ \E i \in 1..MaxOverlap, fd \in FormInputs : handlePrediction(i, fd)
    \/ \E i \in 1..MaxOverlap, resp \in OverlapPredictResponses : PredictResponds(i, resp)
    \/ \E i \in 1..MaxOverlap, resp \in OverlapExplainResponses : ExplainResponds(i, resp)
    \/ \E i \in 1..MaxOverlap : ResumeSettled(i)
    \/ \E i \in 1..MaxOverlap, id \in DocIds : StoreAccepts(i, id)
    \/ \E i \in 1..MaxOverlap : StoreRejects(i)
    \/ \E i \in 1..MaxOverlap : ResumeAppended(i)

SpecOverlap == InitOverlap /\ [][NextOverlap]_vars


(***************************************************************************)
(* Properties.                                                             *)
(***************************************************************************)
\* The step by which call i of handlePrediction returns.
Returns(i) == subs[i].pc # "idle" /\ subs'[i].pc = "idle"

HasStore == db /\ userId # NoUser

\* C1: the step a submission takes once both calls have settled and the
\* classification has failed ends the handler without an addDoc and leaves
\* the store, the pending snapshots, the displayed history and the counts
\* derived from it unchanged, whatever the explanation call's outcome.
C1_NoAppendOnClassificationFailure ==
    [][\A i \in 1..MaxSub :
         (/\ subs[i].pc = "inflight"
          /\ subs[i].predictionPromise.st = "rejected"
          /\ subs'[i].pc # "inflight")
         => /\ Returns(i)
            /\ subs[i].addDoc = "none" /\ subs[i].appends = 0
            /\ store' = store
            /\ snapQueue' = snapQueue
            /\ predictionHistory' = predictionHistory
            /\ diseaseCounts(predictionHistory') = diseaseCounts(predictionHistory)]_vars

\* A submission whose classification got a non-success status has returned,
\* with the store handle present and the explanation fulfilled.
C1_Witness ==
    /\ nSub = 1 /\ ~isLoading /\ HasStore
    /\ prediction = ErrPrediction("missing field")
    /\ shapData.kind = "ok"
    /\ store = {PriorDoc}


\* C2 as stated: a submission whose classification succeeded returns having
\* appended exactly one entry.
C2_ExactlyOneAppendOnSuccess ==
    [][\A i \in 1..MaxSub :
         (Returns(i) /\ subs[i].predictionPromise.st = "fulfilled")
         => subs[i].appends = 1]_vars

\* C2 amended: a submission whose classification succeeded returns having
\* appended exactly one entry when db and the user id were set at submission
\* and the store did not reject the write, and none otherwise; the
\* explanation outcome plays no part.
C2_OneAppendWhenStoreAccepts ==
    [][\A i \in 1..MaxSub :
         (Returns(i) /\ subs[i].predictionPromise.st = "fulfilled")
         => subs[i].appends =
              (IF subs[i].hasStore /\ subs[i].addDoc # "rejected" THEN 1 ELSE 0)]_vars

\* The store has accepted the entry of a submission whose classification
\* succeeded and whose explanation failed.
C2_Witness ==
    \E i \in 1..MaxSub :
        /\ subs[i].pc = "appending"
        /\ subs[i].addDoc = "fulfilled"
        /\ subs[i].appends = 1
        /\ subs[i].shapPromise.st = "rejected"
        /\ \E d \in store : d.id # PriorDoc.id /\ d.disease_name = subs[i].disease

\* C3 as stated: when addDoc is rejected, the handler returns with the
\* displayed classification still the ok outcome of the backend and the
\* displayed explanation the outcome of its own call.
C3_AppendFailureKeepsResult ==
    [][\A i \in 1..MaxSub :
         (Returns(i) /\ subs[i].addDoc = "rejected")
         => /\ prediction' = OkPrediction(subs[i].predictionPromise.value)
            /\ shapData' = (IF subs[i].shapPromise.st = "fulfilled"
                            THEN OkShap(subs[i].shapPromise.value)
                            ELSE ErrShap(subs[i].shapPromise.message))]_vars

\* C4 as stated: handlePrediction returns with every failure shown as an
\* error value: a failed classification in prediction, a failed explanation
\* in shapData, a failed append in one of the two.
C4_EveryFailureDisplayed ==
    [][\A i \in 1..MaxSub :
         Returns(i)
         => /\ (subs[i].predictionPromise.st = "rejected" => prediction'.kind = "error")
            /\ (subs[i].shapPromise.st = "rejected" => shapData'.kind = "error")
            /\ (subs[i].addDoc = "rejected" =>
                  prediction'.kind = "error" \/ shapData'.kind = "error")]_vars

\* Number of entries of a snapshot with prediction_result 1.
Positives(docs) == Cardinality({k \in 1..Len(docs) : docs[k].prediction_result = 1})

\* C5 as stated: the counts shown after a delivery sum to the number of
\* entries of the delivered snapshot.
C5_CountsSumToSnapshotSize ==
    lastDelivered.cause # "none"
    => TotalCount(diseaseCounts(predictionHistory)) = Len(lastDelivered.docs)

\* C5 amended: the counts shown after a delivery sum to the number of
\* entries of the delivered snapshot whose prediction_result is 1.
C5_CountsSumToPositives ==
    lastDelivered.cause # "none"
    => TotalCount(diseaseCounts(predictionHistory)) = Positives(lastDelivered.docs)

\* A snapshot with two entries of one disease, both with label 1, has been
\* delivered.
C5_Witness ==
    /\ Len(lastDelivered.docs) = 2
    /\ \A k \in 1..2 : /\ lastDelivered.docs[k].prediction_result = 1
                       /\ lastDelivered.docs[k].disease_name = PriorDoc.disease_name
    /\ Len(predictionHistory) = 2

\* C6: once the batch of handleClearHistory is committed, no document whose
\* id was read is in the collection, and every document appended between
\* the read and the commit still is, until the handler returns.
C6_ClearDeletesExactlyReadSet ==
    clear.pc = "committed"
    => /\ IdsOf(store) \cap clear.readIds = {}
       /\ clear.racedIds \subseteq IdsOf(store)

\* A clear has committed that read one entry while another was appended
\* between its read and its commit.
C6_Witness ==
    /\ clear.pc = "committed"
    /\ clear.readIds = {PriorDoc.id}
    /\ clear.racedIds # {}
    /\ IdsOf(store) = clear.racedIds

\* C7: the snapshot raised by the commit of a clear during which nothing was
\* appended between read and commit has zero entries, and after its delivery
\* the displayed history is empty and the counts are the empty mapping.
C7_CleanClearDeliversEmpty ==
    (lastDelivered.cause = "clear" /\ lastDelivered.clean)
    => /\ lastDelivered.docs = <<>>
       /\ predictionHistory = <<>>
       /\ diseaseCounts(predictionHistory) = EmptyCounts

\* The snapshot of a clear that removed two entries has been delivered after
\* handleClearHistory reported success.
C7_Witness ==
    /\ lastDelivered.cause = "clear" /\ lastDelivered.clean
    /\ clearHistoryMessage.title = "Success"
    /\ Cardinality(usedIds) = 2
    /\ store = {}

\* C8: the two requests of a submission are issued together: in no state
\* has one of them been sent, or settled, while the other is still unsent.
C8_RequestsIssuedTogether ==
    \A i \in 1..MaxSub :
        (subs[i].predictionPromise.st = "unsent") <=> (subs[i].shapPromise.st = "unsent")

\* The explanation call has settled while the classification call is still
\* outstanding.
C8_Witness ==
    \E i \in 1..MaxSub :
        /\ subs[i].predictionPromise.st = "pending"
        /\ Settled(subs[i].shapPromise)

\* C9: while either call of a submission is outstanding, every step leaves
\* the submission in flight with no outcome produced: prediction and
\* shapData stay null, the loading flag stays set, no addDoc is issued, and
\* a call still pending is not cancelled when the other one fails.
C9_NoOutcomeBeforeBothSettle ==
    [][\A i \in 1..MaxSub :
         (/\ subs[i].pc = "inflight"
          /\ ~(Settled(subs[i].predictionPromise) /\ Settled(subs[i].shapPromise)))
         => /\ subs'[i].pc = "inflight"
            /\ subs'[i].predictionPromise.st \in {"pending", "fulfilled", "rejected"}
            /\ subs'[i].shapPromise.st \in {"pending", "fulfilled", "rejected"}
            /\ subs'[i].addDoc = "none" /\ subs'[i].appends = 0
            /\ prediction' = NullPrediction
            /\ shapData' = NullShap
            /\ isLoading']_vars

\* The classification call has failed and the submission is still in flight,
\* waiting for the explanation call.
C9_Witness ==
    \E i \in 1..MaxSub :
        /\ subs[i].pc = "inflight"
        /\ subs[i].predictionPromise.st = "rejected"
        /\ subs[i].shapPromise.st = "pending"
        /\ prediction = NullPrediction /\ isLoading

\* C10 as stated: a submission returns with shapData ok exactly when the
\* explanation call succeeded and an error exactly when it failed, and with
\* prediction ok exactly when the classification call succeeded and an
\* error exactly when it failed.
C10_OutcomesIndependent ==
    [][\A i \in 1..MaxSub :
         Returns(i)
         => /\ (shapData'.kind = "ok") <=> (subs[i].shapPromise.st = "fulfilled")
            /\ (shapData'.kind = "error") <=> (subs[i].shapPromise.st = "rejected")
            /\ (prediction'.kind = "ok") <=> (subs[i].predictionPromise.st = "fulfilled")
            /\ (prediction'.kind = "error") <=> (subs[i].predictionPromise.st = "rejected")]_vars


\* The orders in which the entries of a sequence can come.
Orderings(s) ==
    {[n \in 1..Len(s) |-> s[p[n]]] :
        p \in {f \in [1..Len(s) -> 1..Len(s)] :
                  \A m, n \in 1..Len(s) : f[m] = f[n] => m = n}}

\* The snapshots raised to the listener and not yet superseded: the one last
\* delivered and those waiting for delivery.
SnapshotsSeen == {lastDelivered.docs} \cup {snapQueue[n].docs : n \in 1..Len(snapQueue)}

\* C11: whatever order the entries of a snapshot come in, the counts computed
\* from it are the same mapping from disease to count.
C11_CountsOrderIndependent ==
    \A docs \in SnapshotsSeen :
        \A permuted \in Orderings(docs) :
            diseaseCounts(HistoryOf(permuted)) = diseaseCounts(HistoryOf(docs))

\* A delivered snapshot with positive entries of two diseases, which another
\* order of its entries turns into a different history.
C11_Witness ==
    /\ predictionHistory = HistoryOf(lastDelivered.docs)
    /\ \E permuted \in Orderings(lastDelivered.docs) :
          HistoryOf(permuted) # predictionHistory

\* C12: a disease drawn before and after a delivery keeps its fill, whatever
\* entries the delivery added or removed and whatever order they came in.
C12_FillFixedPerDisease ==
    [][\A disease \in Range(predictionHistory) \cap Range(predictionHistory') :
          FillOf(predictionHistory', disease) = FillOf(predictionHistory, disease)]_vars

\* C13: a call answered with a non-success status is rejected with the
\* detail of the body as message when the body carries one and with the
\* call's generic message otherwise; a call whose transport failed is
\* rejected.
FailsAsAnswered(p, generic) ==
    /\ p.answer.kind \in {"status", "statusNotJson"}
         => /\ p.st = "rejected"
            /\ p.message = IF p.answer.detail # "" THEN p.answer.detail ELSE generic
    /\ p.answer.kind = "transport" => p.st = "rejected"

C13_FailureCarriesDetailOrGeneric ==
    \A i \in 1..MaxSub :
        /\ FailsAsAnswered(subs[i].predictionPromise, PredictionGenericMessage)
        /\ FailsAsAnswered(subs[i].shapPromise, ShapGenericMessage)

\* C14: when getDocs or batch.commit() has rejected, the step by which
\* handleClearHistory goes on opens the Error dialog and not the Success
\* dialog, and the handler returns with the clearing flag reset.
C14_ClearFailureOpensErrorDialog ==
    [][(clear.pc = "rejected" /\ clear' # clear)
         => /\ clearHistoryMessage'.open
            /\ clearHistoryMessage'.title = "Error"
            /\ clearHistoryMessage'.title # "Success"
            /\ clear'.pc = "idle"
            /\ ~isClearingHistory']_vars

\* handleClearHistory has returned after a rejection, the Error dialog open.
C14_Witness ==
    /\ clear.pc = "idle"
    /\ nClear > 0
    /\ ~isClearingHistory
    /\ clearHistoryMessage.open
    /\ clearHistoryMessage.title = "Error"

\* C15: the document a submission appends carries the disease both of its
\* requests were addressed to, the prediction and the probability the
\* classification call returned and the field values handed to
\* handlePrediction, whatever has been selected or typed since.
C15_EntryBuiltFromSubmission ==
    [][\A i \in 1..MaxSub :
         subs'[i].appends = subs[i].appends + 1
         => \E d \in store' \ store :
               /\ store' = store \cup {d}
               /\ d.disease_name = subs[i].disease
               /\ d.prediction_result = subs[i].predictionPromise.value.prediction
               /\ d.probability = subs[i].predictionPromise.value.probability_has_disease
               /\ d.formData = subs[i].formData]_vars

\* The document of a submission is in the collection while the handler has
\* not yet returned, another disease is selected and the form holds other
\* values than were submitted.
C15_Witness ==
    \E i \in 1..MaxSub :
        /\ subs[i].pc = "appending"
        /\ subs[i].appends = 1
        /\ selectedDisease # subs[i].disease
        /\ \E name \in DOMAIN formData : ~formData[name].unset
        /\ \E d \in store :
              /\ d.disease_name = subs[i].disease
              /\ d.formData = subs[i].formData
              /\ d.formData # formData

\* The calls of handlePrediction that have not returned.
InFlight == {i \in DOMAIN subs : subs[i].pc # "idle"}

\* C16 as stated: entering handlePrediction while calls of it are in flight
\* leaves those calls as they are, every step of a call leaves the other
\* calls alone, and every call whose classification succeeded has appended
\* one document when it returns.
C16_EachOverlappingCallAppends ==
    [][/\ nSub' = nSub + 1 => \A j \in InFlight : subs'[j] = subs[j]
       /\ \A i, j \in DOMAIN subs :
            (i # j /\ subs'[i] # subs[i]) => subs'[j] = subs[j]
       /\ \A i \in DOMAIN subs :
            (Returns(i) /\ subs[i].predictionPromise.st = "fulfilled")
            => subs[i].appends = 1]_vars

\* C16 amended: as above, but a call whose classification succeeded has
\* issued one addDoc of its own when it returns, which has appended one
\* document if the store accepted it and none if the store rejected it.
C16_EachOverlappingCallWritesOnce ==
    [][/\ nSub' = nSub + 1 => \A j \in InFlight : subs'[j] = subs[j]
       /\ \A i, j \in DOMAIN subs :
            (i # j /\ subs'[i] # subs[i]) => subs'[j] = subs[j]
       /\ \A i \in DOMAIN subs :
            subs'[i].appends = subs[i].appends + 1
            => /\ Cardinality(store') = Cardinality(store) + 1
               /\ HistoryEntry(subs[i], CHOOSE id \in usedIds' \ usedIds : TRUE) \in store'
       /\ \A i \in DOMAIN subs :
            (Returns(i) /\ subs[i].predictionPromise.st = "fulfilled" /\ subs[i].hasStore)
            => /\ subs[i].addDoc \in {"fulfilled", "rejected"}
               /\ subs[i].appends = IF subs[i].addDoc = "fulfilled" THEN 1 ELSE 0]_vars

\* Two calls are in flight together and each has appended its own document.
C16_Witness ==
    \E i, j \in DOMAIN subs :
        /\ i # j
        /\ subs[i].pc = "appending" /\ subs[i].appends = 1
        /\ subs[j].pc = "appending" /\ subs[j].appends = 1
        /\ Cardinality(store) = 2

\* How often a disease is counted in the chart.
CountOf(disease) ==
    IF disease \in DOMAIN diseaseCounts(predictionHistory)
    THEN diseaseCounts(predictionHistory)[disease]
    ELSE 0

\* C17 as stated: once every snapshot raised has been delivered, the snapshot
\* shown holds one document per write the store accepted and the chart
\* counts, for every disease, the documents of that disease.
C17_CountsEverySubmission ==
    (subscribed /\ snapQueue = <<>>)
    => /\ Len(lastDelivered.docs) = Cardinality(usedIds)
       /\ Range(lastDelivered.docs) = store
       /\ \A disease \in Categories :
             CountOf(disease) = Cardinality({d \in store : d.disease_name = disease})

\* C17 amended: as above, but the chart counts the documents of the disease
\* whose prediction is 1.
C17_CountsEveryPositiveSubmission ==
    (subscribed /\ snapQueue = <<>>)
    => /\ Len(lastDelivered.docs) = Cardinality(usedIds)
       /\ Range(lastDelivered.docs) = store
       /\ \A disease \in Categories :
             CountOf(disease) =
                Cardinality({d \in store : d.disease_name = disease /\ d.prediction_result = 1})

\* Two calls in flight together have both appended a positive document of
\* the same disease, both appends have been delivered and the chart counts 2.
C17_Witness ==
    /\ snapQueue = <<>>
    /\ \E i, j \in DOMAIN subs :
          /\ i # j
          /\ subs[i].pc = "appending" /\ subs[i].appends = 1
          /\ subs[j].pc = "appending" /\ subs[j].appends = 1
          /\ subs[i].disease = subs[j].disease
          /\ CountOf(subs[i].disease) = 2

\* C18: after a delivery the history shown has one entry per positive entry
\* of the snapshot delivered last and the chart counts, for every disease,
\* the positive entries of that disease in that snapshot: nothing of what
\* earlier snapshots held is left.
C18_HistoryIsLatestSnapshot ==
    lastDelivered.cause # "none"
    => LET counts == diseaseCounts(predictionHistory)
           docs == lastDelivered.docs
       IN /\ Len(predictionHistory) = Positives(docs)
          /\ \A disease \in Range(availableDiseases) :
                (IF disease \in DOMAIN counts THEN counts[disease] ELSE 0) =
                   Cardinality({n \in 1..Len(docs) :
                                   /\ docs[n].disease_name = disease
                                   /\ docs[n].prediction_result = 1})

\* The snapshot of a history that has been cleared is the second or a later
\* one delivered, and nothing is shown.
C18_Witness ==
    /\ lastDelivered.cause = "clear"
    /\ lastDelivered.docs = <<>>
    /\ predictionHistory = <<>>
    /\ PriorDoc.id \in usedIds

\* C19: while the listener is registered every change of the collection
\* raises a snapshot of what the collection then holds, the snapshot raised
\* when the listener is registered is that of the whole collection, every
\* snapshot raised is delivered in the end, and once the collection has
\* stopped changing the history shown is that of the collection.
C19_ChangesReachTheHistory ==
    /\ [][(subscribed /\ store' # store)
            => /\ Len(snapQueue') = Len(snapQueue) + 1
               /\ snapQueue'[Len(snapQueue')].docs = SortedDocs(store')]_vars
    /\ [][(~subscribed /\ subscribed')
            => /\ Len(snapQueue') = 1
               /\ Range(snapQueue'[1].docs) = store]_vars
    /\ (snapQueue # <<>>) ~> (snapQueue = <<>>)
    /\ <>[](subscribed => /\ snapQueue = <<>>
                          /\ lastDelivered.docs = SortedDocs(store)
                          /\ predictionHistory = HistoryOf(SortedDocs(store)))

\* A change of the collection made after the first snapshot has been
\* delivered, and the history shown is that of the collection.
C19_Witness ==
    /\ subscribed
    /\ snapQueue = <<>>
    /\ lastDelivered.cause \in {"append", "clear"}
    /\ lastDelivered.docs = SortedDocs(store)
    /\ predictionHistory = HistoryOf(SortedDocs(store))

\* The snapshots waiting for delivery that a clear raised.
ClearSnapshots(q) == {n \in 1..Len(q) : q[n].cause = "clear"}

\* C20: when a clear that read at least one document commits and nothing was
\* appended since it read, the step that removes documents removes them all
\* and raises one snapshot, which is empty; a snapshot of a clear is raised
\* by the commit only, hence once per clear; and the delivery of that
\* snapshot empties the history shown.
C20_ClearRaisesOneEmptySnapshot ==
    [][/\ (/\ clear.pc = "committing" /\ clear.racedIds = {} /\ clear.readIds # {}
           /\ store' # store /\ store' \subseteq store)
          => /\ store' = {}
             /\ Len(snapQueue') = Len(snapQueue) + 1
             /\ snapQueue'[Len(snapQueue')].docs = <<>>
             /\ clear'.pc = "committed"
       /\ (/\ Len(snapQueue') > Len(snapQueue)
           /\ snapQueue'[Len(snapQueue')].cause = "clear")
          => /\ clear.pc = "committing" /\ clear'.pc = "committed"
             /\ Len(snapQueue') = Len(snapQueue) + 1
       /\ (/\ snapQueue # <<>> /\ snapQueue' = Tail(snapQueue)
           /\ Head(snapQueue).cause = "clear" /\ Head(snapQueue).clean)
          => /\ Head(snapQueue).docs = <<>>
             /\ predictionHistory' = <<>>]_vars

\* A clear that read two documents has committed with nothing appended in
\* between, and its one snapshot, which is empty, waits for delivery.
C20_Witness ==
    /\ clear.pc = "committed"
    /\ Cardinality(clear.readIds) = 2
    /\ clear.racedIds = {}
    /\ store = {}
    /\ Cardinality(ClearSnapshots(snapQueue)) = 1
    /\ \A n \in ClearSnapshots(snapQueue) : snapQueue[n].docs = <<>>

\* The one step a promise of a call may take: from pending to settled.
SettlesOnce(p, q) == q = p \/ (p.st = "pending" /\ Settled(q))

\* C21: a call of handlePrediction sends each of its two requests once, when
\* it is entered, and each request is answered once: whether it is fulfilled
\* or rejected, a settled promise of a running call is never pending again
\* and never takes another answer.
C21_EachRequestSentOnce ==
    [][\A i \in DOMAIN subs :
         /\ (subs[i].pc = "idle" /\ subs'[i].pc # "idle")
               => /\ subs'[i].predictionPromise = Pending(NoBody)
                  /\ subs'[i].shapPromise = Pending(NoShap)
         /\ (subs[i].pc # "idle" /\ subs'[i].pc # "idle")
               => /\ SettlesOnce(subs[i].predictionPromise, subs'[i].predictionPromise)
                  /\ SettlesOnce(subs[i].shapPromise, subs'[i].shapPromise)]_vars

\* C21 witness: both requests of a running call have failed and neither
\* has been sent again.
C21_Witness ==
    \E i \in DOMAIN subs :
        /\ subs[i].pc = "inflight"
        /\ subs[i].predictionPromise.st = "rejected"
        /\ subs[i].shapPromise.st = "rejected"

\* C22: a change event with the empty text leaves its field unset, and any
\* other text leaves it the number parseFloat reads, so a field is unset
\* exactly when its input was empty and a field typed as 0 holds the number
\* zero; the other fields keep what they held.  A change of the selected
\* disease leaves exactly the fields of its schema, every one unset.
C22_EmptyInputStaysUnset ==
    [][/\ (formData' # formData /\ selectedDisease' = selectedDisease)
            => /\ changeEvent'.name \in DOMAIN formData'
               /\ formData'[changeEvent'.name].unset <=> changeEvent'.value = ""
               /\ changeEvent'.value = ""
                     => formData'[changeEvent'.name] \notin {Number(0)}
               /\ changeEvent'.value # ""
                     => formData'[changeEvent'.name]
                           = Number(parseFloat[changeEvent'.value])
               /\ \A name \in DOMAIN formData \ {changeEvent'.name} :
                     formData'[name] = formData[name]
       /\ selectedDisease' # selectedDisease
            => /\ DOMAIN formData'
                    = {field.name : field \in Range(forms[selectedDisease'])}
               /\ \A name \in DOMAIN formData' : formData'[name].unset]_vars

\* C22 witness: of the heart form, Age was emptied again and is unset while
\* Sex holds the number zero.
C22_Witness ==
    /\ selectedDisease = "heart"
    /\ changeEvent = [name |-> "Age", value |-> ""]
    /\ formData["Age"] = Unset
    /\ formData["Sex"] = Number(0)

\* C23: no step changes a stored document: a document that is in the
\* collection before and after a step is the same before and after, and the
\* collection changes only by gaining one document under an id it never
\* held, or by losing documents.
C23_StoredEntriesNeverChange ==
    [][/\ \A d \in store, e \in store' : e.id = d.id => e = d
       /\ store' # store
            => \/ \E e \in store' \ store :
                     /\ store' = store \cup {e}
                     /\ e.id \notin usedIds
               \/ (store' \subseteq store /\ store' # store)]_vars

\* C23 witness: a document was added next to the one the collection held,
\* which is as it was.
C23_Witness ==
    /\ PriorDoc \in store
    /\ \E d \in store : d.id # PriorDoc.id /\ d.disease_name = PriorDoc.disease_name
    /\ nClear > 0

\* An entry of a snapshot whose prediction is 1.
IsPositive(d) == d.prediction_result = 1

\* C24: the history shown after a delivery is, entry by entry and in the
\* snapshot's order, the diseases of the snapshot's entries whose prediction
\* is 1; the chart draws a disease exactly when the snapshot has such an
\* entry of it, and the entries whose prediction is 0 are in no count: the
\* counts and those entries together make up the snapshot.
C24_OnlyPositiveEntriesShown ==
    lastDelivered.cause # "none"
    => LET docs == lastDelivered.docs
           shown == SelectSeq(docs, IsPositive)
           counts == diseaseCounts(predictionHistory)
       IN /\ predictionHistory = [n \in 1..Len(shown) |-> shown[n].disease_name]
          /\ \A disease \in Range(availableDiseases) :
                disease \in DOMAIN counts
                   <=> \E n \in 1..Len(docs) :
                          docs[n].disease_name = disease /\ IsPositive(docs[n])
          /\ TotalCount(counts) + Len(SelectSeq(docs, LAMBDA d : ~IsPositive(d)))
                = Len(docs)

\* C24 witness: the snapshot delivered last holds an entry whose prediction
\* is 1 and one of the same disease whose prediction is 0, and the chart
\* counts one.
C24_Witness ==
    /\ lastDelivered.cause # "none"
    /\ \E m, n \in 1..Len(lastDelivered.docs) :
          /\ lastDelivered.docs[m].prediction_result = 1
          /\ lastDelivered.docs[n].prediction_result = 0
          /\ lastDelivered.docs[m].disease_name = lastDelivered.docs[n].disease_name
          /\ CountOf(lastDelivered.docs[m].disease_name) = 1

\* C25: a step that displays a prediction or an explanation is taken by a
\* call of handlePrediction made for the disease that is selected, so that
\* what is displayed was produced for the selected disease.
C25_DisplayedResultIsOfSelectedDisease ==
    [][\A i \in DOMAIN subs :
          (/\ subs'[i] # subs[i]
           /\ \/ (prediction' # prediction /\ prediction' # NullPrediction)
              \/ (shapData' # shapData /\ shapData' # NullShap))
          => subs[i].disease = selectedDisease']_vars

\* C26: with db or the user id not set, the step a call takes once both
\* requests have settled and the classification has succeeded displays the
\* result received, displays the explanation or its error, clears the
\* loading flag and ends the handler: no addDoc is issued and the collection
\* and its snapshots are left alone.
C26_NoAppendWithoutStoreOrUser ==
    [][\A i \in DOMAIN subs :
         (/\ ~HasStore
          /\ subs[i].pc = "inflight"
          /\ subs[i].predictionPromise.st = "fulfilled"
          /\ subs'[i].pc # "inflight")
         => /\ Returns(i)
            /\ prediction' = OkPrediction(subs[i].predictionPromise.value)
            /\ shapData' = IF subs[i].shapPromise.st = "fulfilled"
                           THEN OkShap(subs[i].shapPromise.value)
                           ELSE ErrShap(subs[i].shapPromise.message)
            /\ isLoading' = FALSE
            /\ subs[i].addDoc = "none" /\ subs[i].appends = 0
            /\ store' = store /\ usedIds' = usedIds /\ snapQueue' = snapQueue]_vars

\* C26 witness: without a store handle a submission has returned, its
\* result is displayed with the error of the explanation, and the collection
\* is as it was.
C26_Witness ==
    /\ ~HasStore /\ isAuthReady
    /\ nSub = 1 /\ ~isLoading
    /\ prediction.kind = "ok"
    /\ shapData.kind = "error"
    /\ store = {PriorDoc} /\ usedIds = IdsOf(store) /\ snapQueue = <<>>

ResultOf(f) ==
    IF f.addDoc = "rejected"
    THEN [prediction |-> CatchPrediction, shapData |-> CatchShap]
    ELSE [prediction |-> PredictionOutcome(f), shapData |-> ShapOutcome(f)]

C29_ExplanationAndFlagWaitForAppend ==
    [][\A i \in DOMAIN subs :
          /\ (subs[i].pc = "inflight" /\ subs'[i].pc = "appending")
                => /\ subs[i].predictionPromise.st = "fulfilled"
                   /\ prediction' = OkPrediction(subs[i].predictionPromise.value)
                   /\ subs'[i].addDoc = "pending"
          /\ (subs'[i].pc = "appending" /\ subs'[i].addDoc = "pending")
                => (shapData' = NullShap /\ isLoading')
          /\ (subs[i].pc = "appending" /\ Returns(i))
                => /\ subs[i].addDoc \in {"fulfilled", "rejected"}
                   /\ shapData' = ResultOf(subs[i]).shapData
                   /\ ~isLoading']_vars

\* C29 witness: a call whose explanation was fulfilled waits for its addDoc
\* under its displayed result, with no explanation displayed and isLoading
\* true.
C29_Witness ==
    \E i \in DOMAIN subs :
        /\ subs[i].pc = "appending" /\ subs[i].addDoc = "pending"
        /\ subs[i].shapPromise.st = "fulfilled"
        /\ prediction = OkPrediction(subs[i].predictionPromise.value)
        /\ shapData = NullShap /\ isLoading

\* Call i can go on: what it awaits has settled.
CanResume(i) ==
    \/ (subs[i].pc = "inflight" /\ AllSettled(subs[i]))
    \/ (subs[i].pc = "appending" /\ subs[i].addDoc \in {"fulfilled", "rejected"})

\* Call i has returned with the loading flag cleared and a result or an
\* error displayed.
ReturnedWithResult(i) ==
    subs[i].pc = "idle" /\ ~isLoading /\ prediction.kind \in {"ok", "error"}

\* C30: a call of handlePrediction whose two requests have settled goes on
\* to return or to await its addDoc, a call whose addDoc has settled goes on
\* to return, and every return, whatever the requests and the addDoc came
\* to, leaves isLoading false and a result or an error displayed.
C30_SettledSubmissionReturns ==
    /\ [][\A i \in 1..MaxSub :
             Returns(i) => (~isLoading' /\ prediction'.kind \in {"ok", "error"})]_vars
    /\ \A i \in 1..MaxSub :
          CanResume(i) ~> \/ ReturnedWithResult(i)
                          \/ (subs[i].pc = "appending" /\ subs[i].addDoc = "pending")

\* C31: from the start of a clearing to its return the clearing flag is set
\* and no dialog is opened; the return resets the flag and opens one dialog,
\* Success when getDocs and batch.commit() were both fulfilled and Error when
\* either was rejected; and a clearing whose getDocs or commit has settled
\* does return.
C31_ClearEndsWithOneDialog ==
    /\ [][/\ (clear.pc # "idle" /\ clear'.pc # "idle")
               => /\ isClearingHistory'
                  /\ (clearHistoryMessage'.open => clearHistoryMessage' = clearHistoryMessage)
          /\ (clear.pc # "idle" /\ clear'.pc = "idle")
               => /\ ~isClearingHistory'
                  /\ clearHistoryMessage'.open
                  /\ clearHistoryMessage'.title =
                        IF clear.pc = "committed" THEN "Success" ELSE "Error"
                  /\ clear.pc \in {"committed", "rejected"}]_vars
    /\ (clear.pc \in {"committed", "rejected"})
          ~> (clear.pc = "idle" /\ ~isClearingHistory /\ clearHistoryMessage.open)

\* C31 witness: a clearing of a history of one entry has returned with the
\* Success dialog, which the user has since closed.
C31_Witness ==
    /\ clear.pc = "idle" /\ nClear = 1
    /\ ~isClearingHistory
    /\ clearHistoryMessage = [open |-> FALSE, title |-> "Success",
                              content |-> "Prediction history cleared successfully."]
    /\ store = {} /\ usedIds # {}

\* C32: a call of handleClearHistory made while db or the user id is not
\* set starts no clearing: nothing is read or deleted, no snapshot is
\* raised, the dialog and the clearing flag are as they were, and so is the
\* history shown.
C32_ClearWithoutStoreDoesNothing ==
    [][(nClear' # nClear /\ ~HasStore)
         => /\ clear' = clear /\ clear.pc = "idle"
            /\ isClearingHistory' = isClearingHistory
            /\ clearHistoryMessage' = clearHistoryMessage
            /\ store' = store /\ usedIds' = usedIds /\ snapQueue' = snapQueue
            /\ predictionHistory' = predictionHistory
            /\ lastDelivered' = lastDelivered]_vars

\* C32 witness: without a store handle the Clear History button has been
\* clicked: nothing is being cleared, no dialog is open and the collection
\* holds what it held.
C32_Witness ==
    /\ isAuthReady /\ ~HasStore
    /\ nClear = 1
    /\ clear = IdleClear /\ ~isClearingHistory
    /\ clearHistoryMessage = ClosedMessage
    /\ store = {PriorDoc}

\* C33: a listener is registered only when auth is ready and db and the
\* user id are set; the snapshots waiting for delivery are all of the one
\* listener on the collection of the user who is signed in; and every
\* snapshot delivered is of that user's collection and is what the history
\* shown is built from: a snapshot raised for the listener of a previous
\* user is not delivered after the user has changed.
C33_OneListenerOnCurrentUser ==
    /\ [](subscribed => (isAuthReady /\ db /\ userId # NoUser))
    /\ [](\A n \in 1..Len(snapQueue) : snapQueue[n].user = userId)
    /\ [][lastDelivered' # lastDelivered
            => /\ lastDelivered'.user = userId'
               /\ predictionHistory' = HistoryOf(lastDelivered'.docs)]_vars
    /\ [][userId' # userId
            => (subscribed'
                  => /\ isAuthReady' /\ db'
                     /\ snapQueue' = <<[Snapshot(store', "initial", FALSE)
                                          EXCEPT !.user = userId']>>)]_vars

\* C33 witness: the user changed while snapshots of the first user's
\* collection, which had shown one entry, were waiting for delivery; the one
\* snapshot delivered since is that of the second user's collection, which
\* is empty, and no history is shown.
C33_Witness ==
    /\ userId = "user2"
    /\ subscribed
    /\ usedIds = {}
    /\ lastDelivered = [docs |-> <<>>, cause |-> "initial", clean |-> FALSE, user |-> "user2"]
    /\ predictionHistory = <<>>
    /\ snapQueue = <<>>

\* C34: when a call of handleReset succeeds the data is emptied, and the
\* response of a fetchData whose request was sent before that call was made
\* does not change the data, so that the data stays empty until a response
\* to a later request arrives; a call of handleReset that fails leaves the
\* data as it is.
C34_ResetIsNotUndoneByEarlierPoll ==
    [][/\ \A k \in DOMAIN polls :
            (polls[k].pc = "answered" /\ polls'[k].pc = "done"
                /\ polls[k].resets < lastReset)
            => data' = data
       /\ (reset = "fulfilled" /\ reset' = "idle") => data' = <<>>
       /\ (reset = "rejected" /\ reset' = "idle") => data' = data]_vars

====
